---- MODULE Spec2Model ----
(***************************************************************************)
(* keepsake backend: the images / logs / errors tables of the SQLite      *)
(* store (backend/database.py) and the listing endpoints of the Flask     *)
(* application (backend/app.py) that page, filter and sort them, with the  *)
(* upload folder and the upload, delete and resolve endpoints.             *)
(*                                                                         *)
(* images, logs, errors: the rows of the three tables in rowid order.      *)
(* sqlite_sequence: the largest id AUTOINCREMENT has given to an image.    *)
(* files: the names of the files in the upload folder.                     *)
(* response: the response in flight of the request served last.            *)
(* calls: the listing calls that run concurrently, one per thread.         *)
(*                                                                         *)
(* Text that the code searches with LIKE, parses with int() or compares   *)
(* is a sequence of one-character strings (<<"c","a","t">> is 'cat'), so   *)
(* that substring search and parsing are computed, not assumed.  SQL text *)
(* is a sequence of tokens; the tokens the code splits on ('WHERE',       *)
(* 'ORDER BY') are tokens of their own.                                    *)
(***************************************************************************)
EXTENDS Integers, Sequences, FiniteSets, TLC

VARIABLES images, logs, errors, response, calls, files, sqlite_sequence

vars == <<images, logs, errors, response, calls, files, sqlite_sequence>>

(***************************************************************************)
(* Bounds of the model.                                                    *)
(***************************************************************************)
MaxImages == 2
MaxLogs == 1
MaxErrors == 1
MaxArgs == 1
MaxUploads == 2

(***************************************************************************)
(* Text helpers.                                                           *)
(***************************************************************************)
DigitVal ==
    ("0" :> 0) @@ ("1" :> 1) @@ ("2" :> 2) @@ ("3" :> 3) @@ ("4" :> 4) @@
    ("5" :> 5) @@ ("6" :> 6) @@ ("7" :> 7) @@ ("8" :> 8) @@ ("9" :> 9)

IsDigits(s) == s # <<>> /\ \A i \in 1..Len(s) : s[i] \in DOMAIN DigitVal

RECURSIVE NatOf(_)
NatOf(s) ==
    IF s = <<>> THEN 0
    ELSE NatOf(SubSeq(s, 1, Len(s) - 1)) * 10 + DigitVal[s[Len(s)]]

\* Python int(text): an optional sign followed by decimal digits; anything
\* else raises ValueError (ok = FALSE).
ParseInt(s) ==
    IF IsDigits(s) THEN [ok |-> TRUE, val |-> NatOf(s)]
    ELSE IF Len(s) >= 2 /\ s[1] = "-" /\ IsDigits(Tail(s))
         THEN [ok |-> TRUE, val |-> 0 - NatOf(Tail(s))]
    ELSE IF Len(s) >= 2 /\ s[1] = "+" /\ IsDigits(Tail(s))
         THEN [ok |-> TRUE, val |-> NatOf(Tail(s))]
    ELSE [ok |-> FALSE, val |-> 0]

UpperToLower ==
    ("A" :> "a") @@ ("E" :> "e") @@ ("F" :> "f") @@ ("L" :> "l") @@
    ("R" :> "r") @@ ("S" :> "s") @@ ("T" :> "t") @@ ("U" :> "u")

\* str.lower(), and the ASCII case folding of SQLite's LIKE.
Lower(s) ==
    [i \in 1..Len(s) |-> IF s[i] \in DOMAIN UpperToLower THEN UpperToLower[s[i]] ELSE s[i]]

\* Python's floor division a // b for b # 0.
FloorDiv(a, b) == IF b > 0 THEN a \div b ELSE (0 - a) \div (0 - b)

(***************************************************************************)
(* The SQLite store as the code uses it: cursor.execute(query, params).   *)
(* A statement is parsed first; text that is not a statement, a column    *)
(* that does not exist or a wrong number of bound values raises           *)
(* sqlite3.Error (ok = FALSE).                                             *)
(***************************************************************************)
Columns ==
    [images |-> {"id", "original_filename", "saved_filename", "file_extension",
                 "file_size", "upload_timestamp"},
     logs   |-> {"id", "timestamp", "level", "message", "details"},
     errors |-> {"id", "timestamp", "severity", "message", "resolved"}]

Tables == DOMAIN Columns

SelectHead == [images |-> "SELECT * FROM images", logs |-> "SELECT * FROM logs",
               errors |-> "SELECT * FROM errors"]

CountHead == [images |-> "SELECT COUNT(*) as count FROM images",
              logs   |-> "SELECT COUNT(*) as count FROM logs",
              errors |-> "SELECT COUNT(*) as count FROM errors"]

\* The conditions the code writes into a WHERE clause, with the number of
\* '?' placeholders of each.
Placeholders ==
    [images |-> ("file_extension = ?" :> 1) @@
                ("(original_filename LIKE ? OR saved_filename LIKE ?)" :> 2) @@
                ("upload_timestamp >= ?" :> 1) @@ ("upload_timestamp <= ?" :> 1) @@
                ("file_size >= ?" :> 1) @@ ("file_size <= ?" :> 1),
     logs   |-> ("level = ?" :> 1) @@ ("(message LIKE ? OR details LIKE ?)" :> 2) @@
                ("timestamp >= ?" :> 1) @@ ("timestamp <= ?" :> 1),
     errors |-> ("resolved = 0" :> 0)]

\* ASC and DESC are keywords in any letter case; no keyword is ascending.
Ascending == {"", "ASC", "asc", "Asc"}
Descending == {"DESC", "desc", "Desc"}

\* expr LIKE pattern: '%' matches any run of characters, '_' one character,
\* letters match without regard to ASCII case.
RECURSIVE Like(_, _)
Like(text, pattern) ==
    IF pattern = <<>> THEN text = <<>>
    ELSE IF pattern[1] = "%"
         THEN \E k \in 0..Len(text) : Like(SubSeq(text, k + 1, Len(text)), Tail(pattern))
    ELSE IF text = <<>> THEN FALSE
    ELSE /\ \/ pattern[1] = "_"
            \/ Lower(<<pattern[1]>>) = Lower(<<text[1]>>)
         /\ Like(Tail(text), Tail(pattern))

\* column >= ? and column <= ? on a column of numeric affinity with a text
\* value bound: text that reads as a number is compared as that number, any
\* other text sorts after every number.
Geq(col, n) == IF n.ok THEN col >= n.val ELSE FALSE
Leq(col, n) == IF n.ok THEN col <= n.val ELSE TRUE
NumGeq(col, param) == Geq(col, ParseInt(param))
NumLeq(col, param) == Leq(col, ParseInt(param))

\* One condition of a WHERE clause on one row, p its bound values.
ClauseHolds(clause, row, p) ==
    CASE clause = "file_extension = ?" -> row.file_extension = p[1]
      [] clause = "(original_filename LIKE ? OR saved_filename LIKE ?)" ->
             Like(row.original_filename, p[1]) \/ Like(row.saved_filename, p[2])
      [] clause = "upload_timestamp >= ?" -> NumGeq(row.upload_timestamp, p[1])
      [] clause = "upload_timestamp <= ?" -> NumLeq(row.upload_timestamp, p[1])
      [] clause = "file_size >= ?" -> NumGeq(row.file_size, p[1])
      [] clause = "file_size <= ?" -> NumLeq(row.file_size, p[1])
      [] clause = "level = ?" -> row.level = p[1]
      [] clause = "(message LIKE ? OR details LIKE ?)" ->
             Like(row.message, p[1]) \/ Like(row.details, p[2])
      [] clause = "timestamp >= ?" -> NumGeq(row.timestamp, p[1])
      [] clause = "timestamp <= ?" -> NumLeq(row.timestamp, p[1])
      [] clause = "resolved = 0" -> ~row.resolved

RECURSIVE CountPlaceholders(_, _)
CountPlaceholders(table, clauses) ==
    IF clauses = <<>> THEN 0
    ELSE Placeholders[table][Head(clauses)] + CountPlaceholders(table, Tail(clauses))

\* The conditions are ANDed; each takes its bound values in order.
RECURSIVE RowMatches(_, _, _, _)
RowMatches(table, row, clauses, params) ==
    IF clauses = <<>> THEN TRUE
    ELSE LET n == Placeholders[table][Head(clauses)]
         IN  /\ ClauseHolds(Head(clauses), row, SubSeq(params, 1, n))
             /\ RowMatches(table, row, Tail(clauses), SubSeq(params, n + 1, Len(params)))

\* condition AND condition AND ... at the front of s.
RECURSIVE ParseClauses(_, _)
ParseClauses(table, s) ==
    IF s = <<>> \/ s[1] \notin DOMAIN Placeholders[table]
    THEN [ok |-> FALSE, clauses |-> <<>>, rest |-> <<>>]
    ELSE IF Len(s) >= 2 /\ s[2] = "AND"
         THEN LET r == ParseClauses(table, SubSeq(s, 3, Len(s)))
              IN  [ok |-> r.ok, clauses |-> <<s[1]>> \o r.clauses, rest |-> r.rest]
    ELSE [ok |-> TRUE, clauses |-> <<s[1]>>, rest |-> Tail(s)]

\* [WHERE conditions] at the front of s.
ParseWhere(table, s) ==
    IF s # <<>> /\ s[1] = "WHERE"
    THEN ParseClauses(table, Tail(s))
    ELSE [ok |-> TRUE, clauses |-> <<>>, rest |-> s]

\* [ORDER BY column [ASC|DESC]] at the front of s.
ParseOrderBy(table, s) ==
    IF s # <<>> /\ s[1] = "ORDER BY"
    THEN IF /\ Len(s) >= 3
            /\ s[2] \in Columns[table]
            /\ s[3] \in Ascending \cup Descending
         THEN [ok |-> TRUE, by |-> s[2], desc |-> s[3] \in Descending,
               rest |-> SubSeq(s, 4, Len(s))]
         ELSE [ok |-> FALSE, by |-> "", desc |-> FALSE, rest |-> <<>>]
    ELSE [ok |-> TRUE, by |-> "", desc |-> FALSE, rest |-> s]

Statement(table, head, w, o) ==
    [ok      |-> /\ head \in {SelectHead[table], CountHead[table]}
                 /\ w.ok /\ o.ok
                 /\ o.rest \in {<<>>, <<"LIMIT ? OFFSET ?">>},
     count   |-> head = CountHead[table],
     clauses |-> w.clauses,
     by      |-> o.by,
     desc    |-> o.desc,
     limit   |-> o.rest = <<"LIMIT ? OFFSET ?">>]

ParseAfterWhere(table, head, w) == Statement(table, head, w, ParseOrderBy(table, w.rest))

\* SELECT ... FROM table [WHERE conditions] [ORDER BY column [ASC|DESC]]
\* [LIMIT ? OFFSET ?]
ParseSelect(table, query) ==
    ParseAfterWhere(table, Head(query), ParseWhere(table, Tail(query)))

\* ORDER BY: rows with equal keys stay in rowid order.
RECURSIVE InsertSorted(_, _, _, _)
InsertSorted(sorted, row, by, desc) ==
    IF sorted = <<>> THEN <<row>>
    ELSE LET last == sorted[Len(sorted)]
         IN  IF (IF desc THEN last[by] >= row[by] ELSE last[by] <= row[by])
             THEN Append(sorted, row)
             ELSE Append(InsertSorted(SubSeq(sorted, 1, Len(sorted) - 1), row, by, desc), last)

RECURSIVE OrderBy(_, _, _)
OrderBy(rows, by, desc) ==
    IF rows = <<>> \/ by = "" THEN rows
    ELSE InsertSorted(OrderBy(SubSeq(rows, 1, Len(rows) - 1), by, desc),
                      rows[Len(rows)], by, desc)

\* LIMIT n OFFSET m: a negative limit is no limit, a negative offset is 0.
Slice(rows, from, limit) ==
    SubSeq(rows, from + 1,
           IF limit < 0 \/ from + limit > Len(rows) THEN Len(rows) ELSE from + limit)

LimitOffset(rows, limit, offset) == Slice(rows, IF offset < 0 THEN 0 ELSE offset, limit)

Limited(rows, limit, params, n) ==
    IF limit THEN LimitOffset(rows, params[n + 1], params[n + 2]) ELSE rows

\* The rows a parsed statement selects, or their number.
Select(table, rows, st, params, n) ==
    IF st.count
    THEN [ok |-> TRUE, rows |-> <<>>,
          count |-> Len(SelectSeq(rows, LAMBDA r :
                            RowMatches(table, r, st.clauses, SubSeq(params, 1, n))))]
    ELSE [ok |-> TRUE,
          rows |-> Limited(OrderBy(SelectSeq(rows, LAMBDA r :
                                       RowMatches(table, r, st.clauses, SubSeq(params, 1, n))),
                                   st.by, st.desc),
                           st.limit, params, n),
          count |-> 0]

Run(table, rows, st, params, n) ==
    IF ~st.ok \/ Len(params) # n + (IF st.limit THEN 2 ELSE 0)
    THEN [ok |-> FALSE, rows |-> <<>>, count |-> 0]
    ELSE Select(table, rows, st, params, n)

RunStatement(table, rows, st, params) ==
    Run(table, rows, st, params, CountPlaceholders(table, st.clauses))

\* cursor.execute(query, params) followed by fetchall() / fetchone() on the
\* rows of the table.
Execute(table, rows, query, params) ==
    RunStatement(table, rows, ParseSelect(table, query), params)

(***************************************************************************)
(* backend/database.py                                                     *)
(***************************************************************************)
\* AUTOINCREMENT id of the next row of a table whose rows are never deleted
\* (logs, errors).
NextId(rows) == IF rows = <<>> THEN 1 ELSE rows[Len(rows)].id + 1

\* DEFAULT CURRENT_TIMESTAMP, counted in inserts: every insert into a table
\* happens later than the rows the table holds.
NextStamp(rows, column) == IF rows = <<>> THEN 1 ELSE rows[Len(rows)][column] + 1

\* add_error as INSERT OR REPLACE of the row with id 1: the rows the table
\* held are lost.
add_error_replacing(errs, message, severity) ==
    <<[id |-> 1, timestamp |-> NextStamp(errs, "timestamp"),
       severity |-> severity, message |-> message, resolved |-> FALSE]>>

\* add_error: one more row in errors, not resolved.
add_error(errs, message, severity) ==
    Append(errs, [id |-> NextId(errs), timestamp |-> NextStamp(errs, "timestamp"),
                  severity |-> severity, message |-> message, resolved |-> FALSE])

\* 'if key in filters' without the test of the value.
AppliedWhenPresent(filters, key) == key \in DOMAIN filters

\* filters[key] is present and not empty.
Applied(filters, key) == key \in DOMAIN filters /\ filters[key] # <<>>

\* The filters of get_images and get_logs in the order the code tests them:
\* the key, the condition appended to where_clauses, and whether the value is
\* bound as the pattern %value% (twice) or as it is.
ImageFilters ==
    << [key |-> "file_extension", clause |-> "file_extension = ?", like |-> FALSE],
       [key |-> "filename",
        clause |-> "(original_filename LIKE ? OR saved_filename LIKE ?)", like |-> TRUE],
       [key |-> "date_from", clause |-> "upload_timestamp >= ?", like |-> FALSE],
       [key |-> "date_to", clause |-> "upload_timestamp <= ?", like |-> FALSE],
       [key |-> "min_size", clause |-> "file_size >= ?", like |-> FALSE],
       [key |-> "max_size", clause |-> "file_size <= ?", like |-> FALSE] >>

LogFilters ==
    << [key |-> "level", clause |-> "level = ?", like |-> FALSE],
       [key |-> "search", clause |-> "(message LIKE ? OR details LIKE ?)", like |-> TRUE],
       [key |-> "date_from", clause |-> "timestamp >= ?", like |-> FALSE],
       [key |-> "date_to", clause |-> "timestamp <= ?", like |-> FALSE] >>

\* where_clauses and params after the chain of 'if key in filters and
\* filters[key]' tests.
RECURSIVE WhereClauses(_, _)
WhereClauses(defs, filters) ==
    IF defs = <<>> THEN [clauses |-> <<>>, params |-> <<>>]
    ELSE LET d    == Head(defs)
             rest == WhereClauses(Tail(defs), filters)
         IN  IF Applied(filters, d.key)
             THEN [clauses |-> <<d.clause>> \o rest.clauses,
                   params  |-> (IF d.like
                                THEN << <<"%">> \o filters[d.key] \o <<"%">>,
                                        <<"%">> \o filters[d.key] \o <<"%">> >>
                                ELSE << filters[d.key] >>) \o rest.params]
             ELSE rest

\* " AND ".join(where_clauses)
RECURSIVE JoinAnd(_)
JoinAnd(clauses) ==
    IF Len(clauses) <= 1 THEN clauses
    ELSE <<Head(clauses), "AND">> \o JoinAnd(Tail(clauses))

\* text.split(sep): the pieces of text between the occurrences of sep.
RECURSIVE Split(_, _)
Split(text, sep) ==
    IF \E i \in 1..Len(text) : text[i] = sep
    THEN LET i == CHOOSE j \in 1..Len(text) :
                      text[j] = sep /\ \A k \in 1..(j - 1) : text[k] # sep
         IN  <<SubSeq(text, 1, i - 1)>> \o Split(SubSeq(text, i + 1, Len(text)), sep)
    ELSE <<text>>

\* The count query the listing derives from its fetch query:
\* query.split('ORDER BY')[0].split('WHERE')[1] appended to the COUNT head.
CountQuery(table, query) ==
    IF \E i \in 1..Len(query) : query[i] = "WHERE"
    THEN <<CountHead[table]>> \o Split(Split(query, "ORDER BY")[1], "WHERE")[2]
    ELSE <<CountHead[table]>>

\* The dict a listing returns; name is 'images', 'logs' or 'errors'.
Listing(name, rows, total, page, per_page, total_pages) ==
    [kind |-> name, rows |-> rows, total |-> total, page |-> page,
     per_page |-> per_page, total_pages |-> total_pages]

\* What the except sqlite3.Error branch of a listing returns.
EmptyListing(name, page, per_page) == Listing(name, <<>>, 0, page, per_page, 0)

\* What a listing returns after its two reads.  fault: the store raised
\* sqlite3.Error on a read.  raised: the call ends with an exception that is
\* not an sqlite3.Error (ZeroDivisionError); caught: it ended in its except
\* sqlite3.Error branch.
PagedResult(table, fetch, count, page, per_page, fault) ==
    IF fault \/ ~fetch.ok \/ ~count.ok
    THEN [raised |-> FALSE, caught |-> TRUE, value |-> EmptyListing(table, page, per_page)]
    ELSE IF per_page = 0
         THEN [raised |-> TRUE, caught |-> FALSE, value |-> EmptyListing(table, page, per_page)]
    ELSE [raised |-> FALSE, caught |-> FALSE,
          value |-> Listing(table, fetch.rows, count.count, page, per_page,
                            FloorDiv(count.count + per_page - 1, per_page))]

\* The fetch and the count of get_images and get_logs: the count query is
\* derived from the text of the fetch query and takes its bound values
\* without the last two, params[:-2].
PagedQuery(table, rows, query, params, page, per_page, fault) ==
    PagedResult(table,
                Execute(table, rows, query, params),
                Execute(table, rows, CountQuery(table, query),
                        IF \E i \in 1..Len(query) : query[i] = "WHERE"
                        THEN SubSeq(params, 1, Len(params) - 2) ELSE <<>>),
                page, per_page, fault)

\* sort_by and sort_order of get_images.
SortBy(filters) ==
    IF "sort_by" \in DOMAIN filters THEN filters["sort_by"] ELSE "upload_timestamp"
SortOrder(filters) ==
    IF "sort_order" \in DOMAIN filters THEN filters["sort_order"] ELSE "DESC"

\* The text of a fetch query.
QueryText(table, clauses, sort_by, sort_order) ==
    <<SelectHead[table]>>
        \o (IF clauses # <<>> THEN <<"WHERE">> \o JoinAnd(clauses) ELSE <<>>)
        \o <<"ORDER BY", sort_by, sort_order>>
        \o <<"LIMIT ? OFFSET ?">>

\* The except branch of get_images records the failure with add_error.
ImagesResult(errs, r) ==
    [raised |-> r.raised, caught |-> r.caught, value |-> r.value,
     errors |-> IF r.caught
                THEN add_error(errs, "Database error when getting images", "medium")
                ELSE errs]

ImagesPaged(tables, page, per_page, filters, fault, w) ==
    ImagesResult(tables.errors,
                 PagedQuery("images", tables.images,
                            QueryText("images", w.clauses, SortBy(filters), SortOrder(filters)),
                            w.params \o <<per_page, (page - 1) * per_page>>,
                            page, per_page, fault))

get_images(tables, page, per_page, filters, fault) ==
    ImagesPaged(tables, page, per_page, filters, fault,
                IF DOMAIN filters # {} THEN WhereClauses(ImageFilters, filters)
                ELSE [clauses |-> <<>>, params |-> <<>>])

\* The except branch of get_logs and get_errors records nothing.
PlainResult(errs, r) ==
    [raised |-> r.raised, caught |-> r.caught, value |-> r.value, errors |-> errs]

LogsPaged(tables, page, per_page, fault, w) ==
    PlainResult(tables.errors,
                PagedQuery("logs", tables.logs,
                           QueryText("logs", w.clauses, "timestamp", "DESC"),
                           w.params \o <<per_page, (page - 1) * per_page>>,
                           page, per_page, fault))

get_logs(tables, page, per_page, filters, fault) ==
    LogsPaged(tables, page, per_page, fault,
              IF DOMAIN filters # {} THEN WhereClauses(LogFilters, filters)
              ELSE [clauses |-> <<>>, params |-> <<>>])

\* No WHERE at all: resolved errors are listed whatever include_resolved is.
ResolvedFilterDropped(include_resolved) == <<>>

\* WHERE resolved = 0 unless include_resolved.
ResolvedFilter(include_resolved) ==
    IF ~include_resolved THEN <<"WHERE", "resolved = 0">> ELSE <<>>

\* get_errors writes its count query out; it is not derived from the fetch.
get_errors(tables, page, per_page, include_resolved, fault) ==
    PlainResult(tables.errors,
        PagedResult("errors",
            Execute("errors", tables.errors,
                    <<SelectHead["errors"]>> \o ResolvedFilter(include_resolved)
                        \o <<"ORDER BY", "timestamp", "DESC">> \o <<"LIMIT ? OFFSET ?">>,
                    <<per_page, (page - 1) * per_page>>),
            Execute("errors", tables.errors,
                    <<CountHead["errors"]>> \o ResolvedFilter(include_resolved), <<>>),
            page, per_page, fault))

\* add_image: one more row in images.  seq is the largest id given so far:
\* AUTOINCREMENT never gives the id of a deleted row again, and the row is
\* stamped later than every earlier insert.
add_image(rows, seq, original_filename, saved_filename, file_extension, file_size) ==
    Append(rows, [id |-> seq + 1, original_filename |-> original_filename,
                  saved_filename |-> saved_filename, file_extension |-> file_extension,
                  file_size |-> file_size,
                  upload_timestamp |-> seq + 1])

\* add_log: one more row in logs.
add_log(rows, level, message, details) ==
    Append(rows, [id |-> NextId(rows), timestamp |-> NextStamp(rows, "timestamp"),
                  level |-> level, message |-> message, details |-> details])

\* resolve_error: UPDATE errors SET resolved = 1 WHERE id = ?; the result is
\* cursor.rowcount > 0.
resolve_error(errs, error_id) ==
    [errors  |-> [i \in 1..Len(errs) |->
                     IF errs[i].id = error_id THEN [errs[i] EXCEPT !.resolved = TRUE]
                     ELSE errs[i]],
     success |-> \E i \in 1..Len(errs) : errs[i].id = error_id]

(***************************************************************************)
(* backend/app.py: the route handlers.  args is request.args, a mapping   *)
(* from parameter names to text.                                           *)
(***************************************************************************)
DefaultPage == 1
DefaultImagesPerPage == 20
DefaultLogsPerPage == 50
DefaultErrorsPerPage == 20

ImageParams == {"file_extension", "filename", "date_from", "date_to", "min_size",
                "max_size", "sort_by", "sort_order"}
LogParams == {"level", "search", "date_from", "date_to"}

\* int(request.args.get(name, default))
IntArg(args, name, default) ==
    IF name \in DOMAIN args THEN ParseInt(args[name]) ELSE [ok |-> TRUE, val |-> default]

\* filters[param] = request.args.get(param) for the params present.
RequestFilters(args, params) == [k \in (DOMAIN args) \cap params |-> args[k]]

ErrorBody(message) == [error |-> message]

\* jsonify(data), 200, or the except branch of the handler: 500, and
\* add_error(message) where the handler records the failure.
Answer(parsed, r, errs, failure, message) ==
    IF ~parsed
    THEN [status |-> 500, body |-> ErrorBody(failure),
          errors |-> IF message = "" THEN errs ELSE add_error(errs, message, "medium")]
    ELSE IF r.raised
         THEN [status |-> 500, body |-> ErrorBody(failure),
               errors |-> IF message = "" THEN r.errors
                          ELSE add_error(r.errors, message, "medium")]
    ELSE [status |-> 200, body |-> r.value, errors |-> r.errors]

\* A handler that answers 500 to a parameter it does not know.
ImagesAnswerStrict(tables, args, fault, page, per_page) ==
    Answer(page.ok /\ per_page.ok /\ DOMAIN args \subseteq ImageParams \cup {"page", "per_page"},
           get_images(tables, page.val, per_page.val, RequestFilters(args, ImageParams), fault),
           tables.errors, "Failed to retrieve images", "Images retrieval error")

ImagesAnswer(tables, args, fault, page, per_page) ==
    Answer(page.ok /\ per_page.ok,
           get_images(tables, page.val, per_page.val, RequestFilters(args, ImageParams), fault),
           tables.errors, "Failed to retrieve images", "Images retrieval error")

\* GET /api/images
app_get_images(tables, args, fault) ==
    ImagesAnswer(tables, args, fault, IntArg(args, "page", DefaultPage),
                 IntArg(args, "per_page", DefaultImagesPerPage))

LogsAnswer(tables, args, fault, page, per_page) ==
    Answer(page.ok /\ per_page.ok,
           get_logs(tables, page.val, per_page.val, RequestFilters(args, LogParams), fault),
           tables.errors, "Failed to retrieve logs", "Logs retrieval error")

\* GET /api/logs
app_get_logs(tables, args, fault) ==
    LogsAnswer(tables, args, fault, IntArg(args, "page", DefaultPage),
               IntArg(args, "per_page", DefaultLogsPerPage))

\* request.args.get('include_resolved', 'false').lower() == 'true'
IncludeResolved(args) ==
    IF "include_resolved" \in DOMAIN args
    THEN Lower(args["include_resolved"]) = <<"t", "r", "u", "e">>
    ELSE FALSE

ErrorsAnswer(tables, args, fault, page, per_page) ==
    Answer(page.ok /\ per_page.ok,
           get_errors(tables, page.val, per_page.val, IncludeResolved(args), fault),
           tables.errors, "Failed to retrieve errors", "")

\* GET /api/errors
app_get_errors(tables, args, fault) ==
    ErrorsAnswer(tables, args, fault, IntArg(args, "page", DefaultPage),
                 IntArg(args, "per_page", DefaultErrorsPerPage))

ResolveAnswer(r) ==
    IF ~r.success
    THEN [status |-> 404, body |-> ErrorBody("Error not found or already resolved"),
          errors |-> r.errors]
    ELSE [status |-> 200, body |-> [message |-> "Error resolved successfully"],
          errors |-> r.errors]

\* POST /api/errors/<error_id>/resolve
app_resolve_error(tables, error_id) == ResolveAnswer(resolve_error(tables.errors, error_id))

(***************************************************************************)
(* backend/app.py: upload and delete.  st is the store and the upload     *)
(* folder as a request finds them: [images, logs, errors, files, seq].     *)
(***************************************************************************)
SECRET_KEY == <<"k", "e", "y">>

AllowedExtensions ==
    {<<".", "p", "n", "g">>, <<".", "j", "p", "g">>, <<".", "j", "p", "e", "g">>,
     <<".", "g", "i", "f">>, <<".", "b", "m", "p">>, <<".", "w", "e", "b", "p">>}

\* The position of the last '.' of name, 0 if it has none.
LastDot(name) ==
    IF \E i \in 1..Len(name) : name[i] = "."
    THEN CHOOSE i \in 1..Len(name) :
             name[i] = "." /\ \A j \in (i + 1)..Len(name) : name[j] # "."
    ELSE 0

\* os.path.splitext(filename)[1].lower() if "." in filename else "":
\* the text from the last dot on, unless only dots precede it.
get_file_extension(filename) ==
    IF LastDot(filename) = 0 \/ \A j \in 1..(LastDot(filename) - 1) : filename[j] = "."
    THEN <<>>
    ELSE Lower(SubSeq(filename, LastDot(filename), Len(filename)))

\* uuid.uuid4().hex[:6] followed by the extension; hex is the text of random
\* hexadecimal digits the call drew.
generate_unique_filename(original_filename, hex) ==
    hex \o get_file_extension(original_filename)

allowed_file(filename) == get_file_extension(filename) \in AllowedExtensions

\* werkzeug's secure_filename: path separators and blanks become '_', then
\* dots and underscores are stripped from both ends.
RECURSIVE StripEnds(_)
StripEnds(name) ==
    IF name # <<>> /\ name[1] \in {".", "_"} THEN StripEnds(Tail(name))
    ELSE IF name # <<>> /\ name[Len(name)] \in {".", "_"}
         THEN StripEnds(SubSeq(name, 1, Len(name) - 1))
    ELSE name

secure_filename(name) ==
    StripEnds([i \in 1..Len(name) |-> IF name[i] \in {"/", " "} THEN "_" ELSE name[i]])

\* What a request leaves behind and answers.
Outcome(status, body, imgs, lgs, errs, fls, seq) ==
    [status |-> status, body |-> body, images |-> imgs, logs |-> lgs, errors |-> errs,
     files |-> fls, seq |-> seq]

\* A rejected upload: a WARNING row in logs and nothing else.
Rejected(st, status, error, message) ==
    Outcome(status, ErrorBody(error), st.images,
            add_log(st.logs, <<"W", "A", "R", "N", "I", "N", "G">>, message, <<"I", "P", ":", " ", "1">>),
            st.errors, st.files, st.seq)

\* The try block of upload_image: the file is saved under the generated name
\* (an existing file of that name is overwritten), then the row is inserted,
\* then the upload is logged.  fault is where the block fails: "save"
\* (image_file.save raises), "insert" (the INSERT of add_image raises, which
\* add_image records and answers with None), "store" (the store fails for the
\* rest of the request, add_error included), or "none".
Saved(st, fault, original_filename, saved_filename, file_size) ==
    CASE fault = "save" ->
             Outcome(500, ErrorBody("Failed to upload image"), st.images, st.logs,
                     add_error(st.errors, "Image upload error", "high"),
                     st.files, st.seq)
      [] fault = "insert" ->
             Outcome(500, ErrorBody("Failed to upload image"), st.images, st.logs,
                     add_error(add_error(st.errors, "Database error when adding image",
                                         "medium"),
                               "Image upload error", "high"),
                     st.files \cup {saved_filename}, st.seq)
      [] fault = "store" ->
             Outcome(500, ErrorBody("Failed to upload image"), st.images, st.logs,
                     st.errors, st.files \cup {saved_filename}, st.seq)
      [] fault = "none" ->
             Outcome(200, [url |-> saved_filename],
                     add_image(st.images, st.seq, original_filename, saved_filename,
                               get_file_extension(original_filename), file_size),
                     add_log(st.logs, <<"I", "N", "F", "O">>,
                             <<"I", "m", "a", "g", "e", " ", "u", "p", "l", "o", "a", "d", "e", "d", " ", "s", "u", "c", "c", "e", "s", "s", "f", "u", "l", "l", "y">>,
                             <<"F", "i", "l", "e", ":", " ">> \o saved_filename),
                     st.errors, st.files \cup {saved_filename}, st.seq + 1)

\* The checks of upload_image on the file, after the secret was accepted.
Accepted(st, rq) ==
    IF "image" \notin DOMAIN rq.files
    THEN Rejected(st, 400, "No image file provided",
                  <<"U", "p", "l", "o", "a", "d", " ", "a", "t", "t", "e", "m", "p", "t", " ", "w", "i", "t", "h", "o", "u", "t", " ", "i", "m", "a", "g", "e", " ", "f", "i", "l", "e">>)
    ELSE IF rq.files["image"] = <<>>
         THEN Rejected(st, 400, "No selected file",
                       <<"U", "p", "l", "o", "a", "d", " ", "a", "t", "t", "e", "m", "p", "t", " ", "w", "i", "t", "h", " ", "e", "m", "p", "t", "y", " ", "f", "i", "l", "e", "n", "a", "m", "e">>)
    ELSE IF ~allowed_file(secure_filename(rq.files["image"]))
         THEN Rejected(st, 400, "File type not allowed",
                       <<"U", "p", "l", "o", "a", "d", " ", "a", "t", "t", "e", "m", "p", "t", " ", "w", "i", "t", "h", " ", "d", "i", "s", "a", "l", "l", "o", "w", "e", "d", " ", "f", "i", "l", "e", " ", "t", "y", "p", "e", ":", " ">>
                           \o get_file_extension(secure_filename(rq.files["image"])))
    ELSE Saved(st, rq.fault, secure_filename(rq.files["image"]),
               generate_unique_filename(secure_filename(rq.files["image"]), rq.hex),
               rq.file_size)

\* Any secret that is present is accepted.
SecretPresent(form) == TRUE

\* request.form['secret'] != SECRET_KEY is false.
SecretMatches(form) == form["secret"] = SECRET_KEY

\* POST /upload
upload_image(st, rq) ==
    IF "secret" \notin DOMAIN rq.form
    THEN Rejected(st, 403, "Authentication required",
                  <<"U", "p", "l", "o", "a", "d", " ", "a", "t", "t", "e", "m", "p", "t", " ", "w", "i", "t", "h", "o", "u", "t", " ", "s", "e", "c", "r", "e", "t", " ", "k", "e", "y">>)
    ELSE IF ~SecretMatches(rq.form)
         THEN Rejected(st, 403, "Authentication failed",
                       <<"U", "p", "l", "o", "a", "d", " ", "a", "t", "t", "e", "m", "p", "t", " ", "w", "i", "t", "h", " ", "i", "n", "v", "a", "l", "i", "d", " ", "s", "e", "c", "r", "e", "t", " ", "k", "e", "y">>)
    ELSE Accepted(st, rq)

\* database.get_image: the row with the id, as a sequence of at most one row.
get_image(rows, image_id) == SelectSeq(rows, LAMBDA r : r.id = image_id)

\* database.delete_image: DELETE FROM images WHERE id = ?
delete_image(rows, image_id) == SelectSeq(rows, LAMBDA r : r.id # image_id)

\* delete_image after the row was found: the row is deleted, then the file
\* is removed if it exists.  fault: "delete" (the DELETE raises, which
\* database.delete_image records and answers with False), "remove" (os.remove
\* raises), or "none".
Deleting(st, image_id, fault, image) ==
    CASE fault = "delete" ->
             Outcome(500, ErrorBody("Failed to delete image from database"), st.images,
                     st.logs,
                     add_error(st.errors,
                               "Database error when deleting image " \o ToString(image_id),
                               "medium"),
                     st.files, st.seq)
      [] fault = "remove" /\ image.saved_filename \in st.files ->
             Outcome(500, ErrorBody("Failed to delete image"),
                     delete_image(st.images, image_id), st.logs,
                     add_error(st.errors,
                               "Image " \o ToString(image_id) \o " deletion error",
                               "medium"),
                     st.files, st.seq)
      [] OTHER ->
             Outcome(200, [message |-> "Image deleted successfully"],
                     delete_image(st.images, image_id), st.logs, st.errors,
                     st.files \ {image.saved_filename}, st.seq)

\* DELETE /api/images/<image_id>.  With fault "store" the store fails for the
\* whole request: get_image answers None and nothing is recorded.
app_delete_image(st, image_id, fault) ==
    IF fault = "store" \/ get_image(st.images, image_id) = <<>>
    THEN Outcome(404, ErrorBody("Image not found"), st.images, st.logs, st.errors,
                 st.files, st.seq)
    ELSE Deleting(st, image_id, fault, get_image(st.images, image_id)[1])

(***************************************************************************)
(* Requests.                                                               *)
(***************************************************************************)
Png == <<".", "p", "n", "g">>
Jpg == <<".", "j", "p", "g">>

\* What an upload stores: the name the client gave, the generated name, the
\* extension and the size in bytes.
UploadInputs ==
    { [original_filename |-> <<"c", "a", "t">> \o Png, saved_filename |-> <<"d", "0">> \o Png,
       file_extension |-> Png, file_size |-> 1],
      [original_filename |-> <<"d", "o", "g">> \o Jpg, saved_filename |-> <<"c", "a">> \o Jpg,
       file_extension |-> Jpg, file_size |-> 2] }

LogInputs ==
    { [level |-> <<"I", "N", "F", "O">>, message |-> <<"u", "p">>, details |-> <<"o", "k">>],
      [level |-> <<"W", "A", "R", "N">>, message |-> <<"n", "o">>, details |-> <<"u", "p">>] }

\* Values of the query parameters; "tag" is a parameter no endpoint declares.
PageValues == {<<"-", "1">>, <<"0">>, <<"2">>}
PerPageValues == {<<"-", "1">>, <<"0">>, <<"1">>}

ImageArgValues ==
    [page |-> PageValues, per_page |-> PerPageValues,
     file_extension |-> {<<>>, Png}, filename |-> {<<>>, <<"c", "a">>},
     date_from |-> {<<>>, <<"2">>}, date_to |-> {<<>>, <<"1">>},
     min_size |-> {<<>>, <<"2">>}, max_size |-> {<<>>, <<"1">>},
     sort_by |-> {"file_size", "colour"}, sort_order |-> {"asc", "sideways"},
     tag |-> {<<"x">>}]

LogArgValues ==
    [page |-> PageValues, per_page |-> PerPageValues,
     level |-> {<<>>, <<"I", "N", "F", "O">>}, search |-> {<<>>, <<"u", "p">>},
     date_from |-> {<<>>, <<"2">>}, date_to |-> {<<>>, <<"1">>},
     tag |-> {<<"x">>}]

ErrorArgValues ==
    [page |-> PageValues, per_page |-> PerPageValues,
     include_resolved |-> {<<"T", "r", "u", "e">>, <<"f", "a", "l", "s", "e">>},
     tag |-> {<<"x">>}]

\* Every mapping that gives each key of keys one of its values.
RECURSIVE Mappings(_, _)
Mappings(values, keys) ==
    IF keys = {} THEN {<<>>}
    ELSE LET k == CHOOSE x \in keys : TRUE
         IN  {(k :> v) @@ m : v \in values[k], m \in Mappings(values, keys \ {k})}

\* The requests with at most MaxArgs query parameters.
Requests(values) ==
    UNION {Mappings(values, keys) :
               keys \in {s \in SUBSET DOMAIN values : Cardinality(s) <= MaxArgs}}

ImageRequests == Requests(ImageArgValues)
LogRequests == Requests(LogArgValues)
ErrorRequests == Requests(ErrorArgValues)

(***************************************************************************)
(* The state machine.  One request is served at a time: a handler leaves  *)
(* its response in flight, and the next request starts after the client   *)
(* has received it.                                                        *)
(***************************************************************************)
Idle == [op |-> "none"]

\* The threads of the server that serve listing calls at the same time.
Threads == {"t1", "t2"}

db == [images |-> images, logs |-> logs, errors |-> errors]

\* No listing call is running on the thread.
NotCalling == [pc |-> "idle"]

Quiet == \A t \in Threads : calls[t] = NotCalling

Init ==
    /\ images = <<>>
    /\ logs = <<>>
    /\ errors = <<>>
    /\ response = Idle
    /\ calls = [t \in Threads |-> NotCalling]
    /\ files = {}
    /\ sqlite_sequence = 0

AddImage ==
    /\ response = Idle /\ Quiet
    /\ Len(images) < MaxImages
    /\ \E u \in UploadInputs :
           images' = add_image(images, sqlite_sequence, u.original_filename,
                               u.saved_filename, u.file_extension, u.file_size)
    /\ sqlite_sequence' = sqlite_sequence + 1
    /\ UNCHANGED <<logs, errors, response, calls, files>>

AddLog ==
    /\ response = Idle /\ Quiet
    /\ Len(logs) < MaxLogs
    /\ \E l \in LogInputs : logs' = add_log(logs, l.level, l.message, l.details)
    /\ UNCHANGED <<images, errors, response, calls, files, sqlite_sequence>>

Respond(op, args, fault, r) ==
    /\ Len(r.errors) <= MaxErrors
    /\ errors' = r.errors
    /\ response' = [op |-> op, args |-> args, fault |-> fault,
                    status |-> r.status, body |-> r.body]
    /\ UNCHANGED <<images, logs, calls, files, sqlite_sequence>>

GetImages ==
    /\ response = Idle /\ Quiet
    /\ \E args \in ImageRequests, fault \in BOOLEAN :
           Respond("get_images", args, fault, app_get_images(db, args, fault))

GetLogs ==
    /\ response = Idle /\ Quiet
    /\ \E args \in LogRequests, fault \in BOOLEAN :
           Respond("get_logs", args, fault, app_get_logs(db, args, fault))

GetErrors ==
    /\ response = Idle /\ Quiet
    /\ \E args \in ErrorRequests, fault \in BOOLEAN :
           Respond("get_errors", args, fault, app_get_errors(db, args, fault))

ResolveError ==
    /\ response = Idle /\ Quiet
    /\ \E error_id \in 1..(MaxErrors + 1) :
           Respond("resolve_error", [error_id |-> error_id], FALSE,
                   app_resolve_error(db, error_id))

\* The upload requests: the form with or without a secret, with or without
\* an image file of some name, the digits uuid4 draws, the size of the file
\* and the failure the request meets.
Hexes == {<<"a", "1">>, <<"b", "2">>}

UploadFiles == {<<>>, [image |-> <<>>], [image |-> <<"a", ".", "t", "x", "t">>],
                [image |-> <<"c", "a", "t", ".", "p", "n", "g">>]}

UploadRequests ==
    {[form |-> f, files |-> i, hex |-> <<"a", "1">>, file_size |-> 1, fault |-> "none"] :
         f \in {<<>>, [secret |-> <<"x">>]}, i \in {<<>>, [image |-> <<"c", "a", "t", ".", "p", "n", "g">>]}}
    \cup
    {[form |-> [secret |-> SECRET_KEY], files |-> i, hex |-> <<"a", "1">>, file_size |-> 1,
      fault |-> "none"] : i \in UploadFiles \ {[image |-> <<"c", "a", "t", ".", "p", "n", "g">>]}}
    \cup
    {[form |-> [secret |-> SECRET_KEY], files |-> [image |-> <<"c", "a", "t", ".", "p", "n", "g">>], hex |-> h,
      file_size |-> 1, fault |-> x] :
         h \in Hexes, x \in {"none", "save", "insert", "store"}}

\* The store and the folder a request finds.
state == [images |-> images, logs |-> logs, errors |-> errors, files |-> files,
          seq |-> sqlite_sequence]

\* The request is served: its outcome becomes the state and its response is
\* in flight.
Serve(op, args, r) ==
    /\ Len(r.images) <= MaxImages
    /\ Len(r.logs) <= MaxUploads
    /\ Len(r.errors) <= MaxErrors
    /\ images' = r.images
    /\ logs' = r.logs
    /\ errors' = r.errors
    /\ files' = r.files
    /\ sqlite_sequence' = r.seq
    /\ response' = [op |-> op, args |-> args, status |-> r.status, body |-> r.body]
    /\ UNCHANGED calls

Upload ==
    /\ response = Idle /\ Quiet
    /\ \E rq \in UploadRequests : Serve("upload_image", rq, upload_image(state, rq))

DeleteImage ==
    /\ response = Idle /\ Quiet
    /\ \E image_id \in 1..(sqlite_sequence + 1),
          fault \in {"none", "delete", "remove", "store"} :
           Serve("delete_image", [image_id |-> image_id, fault |-> fault],
                 app_delete_image(state, image_id, fault))

\* The client receives the response.
Deliver ==
    /\ response # Idle
    /\ response' = Idle
    /\ UNCHANGED <<images, logs, errors, calls, files, sqlite_sequence>>

\* The upload folder and the images table: uploads and deletes.
NextUpload ==
    \/ Upload
    \/ DeleteImage
    \/ Deliver

SpecUpload == Init /\ [][NextUpload]_vars

(***************************************************************************)
(* Listing calls on several threads.  Each call opens a connection of its *)
(* own (get_db_connection) and makes its two reads one after the other;   *)
(* the steps of different calls interleave.  No upload, delete or resolve *)
(* runs while a listing call does.                                         *)
(***************************************************************************)
ConcurrentRequests ==
    { [op |-> "get_images", args |-> <<>>],
      [op |-> "get_images", args |-> [file_extension |-> Png]],
      [op |-> "get_logs", args |-> <<>>],
      [op |-> "get_errors", args |-> <<>>],
      [op |-> "get_errors", args |-> [include_resolved |-> <<"t", "r", "u", "e">>]] }

TableOf(op) ==
    CASE op = "get_images" -> "images" [] op = "get_logs" -> "logs" [] op = "get_errors" -> "errors"

DefaultPerPage(op) ==
    CASE op = "get_images" -> DefaultImagesPerPage
      [] op = "get_logs" -> DefaultLogsPerPage
      [] op = "get_errors" -> DefaultErrorsPerPage

\* page and per_page as the handler passes them to the listing.
CallPage(c) == IntArg(c.args, "page", DefaultPage).val
CallPerPage(c) == IntArg(c.args, "per_page", DefaultPerPage(c.op)).val

\* where_clauses and params of the call.
CallWhere(c) ==
    IF c.op = "get_images" /\ DOMAIN RequestFilters(c.args, ImageParams) # {}
    THEN WhereClauses(ImageFilters, RequestFilters(c.args, ImageParams))
    ELSE IF c.op = "get_logs" /\ DOMAIN RequestFilters(c.args, LogParams) # {}
         THEN WhereClauses(LogFilters, RequestFilters(c.args, LogParams))
    ELSE [clauses |-> <<>>, params |-> <<>>]

\* The fetch query of the call and its bound values.
FetchQuery(c) ==
    CASE c.op = "get_images" ->
             QueryText("images", CallWhere(c).clauses,
                       SortBy(RequestFilters(c.args, ImageParams)),
                       SortOrder(RequestFilters(c.args, ImageParams)))
      [] c.op = "get_logs" -> QueryText("logs", CallWhere(c).clauses, "timestamp", "DESC")
      [] c.op = "get_errors" ->
             <<SelectHead["errors"]>> \o ResolvedFilter(IncludeResolved(c.args))
                 \o <<"ORDER BY", "timestamp", "DESC">> \o <<"LIMIT ? OFFSET ?">>

FetchParams(c) == CallWhere(c).params \o <<CallPerPage(c), (CallPage(c) - 1) * CallPerPage(c)>>

\* The count query of the call and its bound values.
CallCountQuery(c) ==
    IF c.op = "get_errors"
    THEN <<CountHead["errors"]>> \o ResolvedFilter(IncludeResolved(c.args))
    ELSE CountQuery(TableOf(c.op), FetchQuery(c))

CallCountParams(c) ==
    IF c.op # "get_errors" /\ \E i \in 1..Len(FetchQuery(c)) : FetchQuery(c)[i] = "WHERE"
    THEN SubSeq(FetchParams(c), 1, Len(FetchParams(c)) - 2)
    ELSE <<>>

\* The call on thread t moves on to the local state c.
Continue(t, c) == calls' = [calls EXCEPT ![t] = c]

\* A request arrives on a free thread and the handler parses page and
\* per_page.  A call that can record an error starts while errors has room
\* for the rows of the calls that run.
CallStart(t) ==
    /\ response = Idle
    /\ calls[t] = NotCalling
    /\ \E rq \in ConcurrentRequests :
           /\ rq.op # "get_errors" =>
                  Len(errors) + Cardinality({u \in Threads :
                                                /\ calls[u] # NotCalling
                                                /\ calls[u].op # "get_errors"}) < MaxErrors
           /\ Continue(t, [pc |-> "fetch", op |-> rq.op, args |-> rq.args,
                           seen |-> Len(errors)])
    /\ UNCHANGED <<images, logs, errors, response, files, sqlite_sequence>>

\* cursor.execute(query, params); fetchall()
CallFetched(t, c, fetch) ==
    IF fetch.ok
    THEN Continue(t, [pc |-> "count", op |-> c.op, args |-> c.args, seen |-> c.seen,
                      fetch |-> fetch])
    ELSE Continue(t, [pc |-> "except", op |-> c.op, args |-> c.args, seen |-> c.seen,
                      fetch |-> fetch,
                      outcome |-> PagedResult(TableOf(c.op), fetch, fetch,
                                              CallPage(c), CallPerPage(c), FALSE)])

CallFetch(t) ==
    /\ calls[t].pc = "fetch"
    /\ CallFetched(t, calls[t],
                   Execute(TableOf(calls[t].op), db[TableOf(calls[t].op)],
                           FetchQuery(calls[t]), FetchParams(calls[t])))
    /\ UNCHANGED <<images, logs, errors, response, files, sqlite_sequence>>

\* cursor.execute(count_query, ...); fetchone(); the dict is built.
CallCounted(t, c, r) ==
    IF r.caught \/ r.raised
    THEN Continue(t, [pc |-> "except", op |-> c.op, args |-> c.args, seen |-> c.seen,
                      fetch |-> c.fetch, outcome |-> r])
    ELSE Continue(t, [pc |-> "done", op |-> c.op, args |-> c.args, seen |-> c.seen,
                      status |-> 200, body |-> r.value])

CallCount(t) ==
    /\ calls[t].pc = "count"
    /\ CallCounted(t, calls[t],
                   PagedResult(TableOf(calls[t].op), calls[t].fetch,
                               Execute(TableOf(calls[t].op), db[TableOf(calls[t].op)],
                                       CallCountQuery(calls[t]), CallCountParams(calls[t])),
                               CallPage(calls[t]), CallPerPage(calls[t]), FALSE))
    /\ UNCHANGED <<images, logs, errors, response, files, sqlite_sequence>>

\* The message the failed call records with add_error, "" if it records
\* nothing: get_images in its except sqlite3.Error branch, the images and
\* logs handlers in their except Exception branch.
Recorded(c) ==
    IF c.outcome.caught
    THEN (IF c.op = "get_images" THEN "Database error when getting images" ELSE "")
    ELSE CASE c.op = "get_images" -> "Images retrieval error"
           [] c.op = "get_logs" -> "Logs retrieval error"
           [] c.op = "get_errors" -> ""

FailureBody(op) ==
    CASE op = "get_images" -> ErrorBody("Failed to retrieve images")
      [] op = "get_logs" -> ErrorBody("Failed to retrieve logs")
      [] op = "get_errors" -> ErrorBody("Failed to retrieve errors")

\* The except branch of the listing or of its handler.
CallExcept(t) ==
    /\ calls[t].pc = "except"
    /\ errors' = IF Recorded(calls[t]) = "" THEN errors
                 ELSE add_error(errors, Recorded(calls[t]), "medium")
    /\ Continue(t, [pc |-> "done", op |-> calls[t].op, args |-> calls[t].args,
                    seen |-> calls[t].seen,
                    status |-> IF calls[t].outcome.caught THEN 200 ELSE 500,
                    body |-> IF calls[t].outcome.caught THEN calls[t].outcome.value
                             ELSE FailureBody(calls[t].op)])
    /\ UNCHANGED <<images, logs, response, files, sqlite_sequence>>

\* The handler returns its response and the thread is free.
CallReturn(t) ==
    /\ calls[t].pc = "done"
    /\ Continue(t, NotCalling)
    /\ UNCHANGED <<images, logs, errors, response, files, sqlite_sequence>>

NextConcurrent ==
    \/ AddImage
    \/ \E t \in Threads : CallStart(t)
    \/ \E t \in Threads : CallFetch(t)
    \/ \E t \in Threads : CallCount(t)
    \/ \E t \in Threads : CallExcept(t)
    \/ \E t \in Threads : CallReturn(t)

SpecConcurrent == Init /\ [][NextConcurrent]_vars

\* The store and its listing endpoints alone.
NextListing ==
    \/ AddImage
    \/ AddLog
    \/ GetImages
    \/ GetLogs
    \/ GetErrors
    \/ Deliver

SpecListing == Init /\ [][NextListing]_vars

\* The errors table: the failures that listings of images record, the
\* errors listing and the resolve endpoint.
NextErrors ==
    \/ GetImages
    \/ GetErrors
    \/ ResolveError
    \/ Deliver

SpecErrors == Init /\ [][NextErrors]_vars

\* Every request the server takes.
Next ==
    \/ AddImage
    \/ AddLog
    \/ GetImages
    \/ GetLogs
    \/ GetErrors
    \/ ResolveError
    \/ Upload
    \/ DeleteImage
    \/ \E t \in Threads : CallStart(t)
    \/ \E t \in Threads : CallFetch(t)
    \/ \E t \in Threads : CallCount(t)
    \/ \E t \in Threads : CallExcept(t)
    \/ \E t \in Threads : CallReturn(t)
    \/ Deliver

Spec == Init /\ [][Next]_vars

(***************************************************************************)
(* Properties of the listing endpoints.                                    *)
(***************************************************************************)
Listings == {"get_images", "get_logs", "get_errors"}

\* A listing has been served and its response is in flight.
Served == response.op \in Listings

\* ... and it is a listing dict with status 200.
Returned == Served /\ response.status = 200

ImageFilterKeys == {ImageFilters[i].key : i \in 1..Len(ImageFilters)}
LogFilterKeys == {LogFilters[i].key : i \in 1..Len(LogFilters)}

\* The rows of a table that satisfy every filter of the request that has a
\* value, found row by row.
Satisfying(table, rows, defs, filters) ==
    SelectSeq(rows, LAMBDA r :
        \A i \in 1..Len(defs) :
            Applied(filters, defs[i].key) =>
                ClauseHolds(defs[i].clause, r,
                            IF defs[i].like
                            THEN << <<"%">> \o filters[defs[i].key] \o <<"%">>,
                                    <<"%">> \o filters[defs[i].key] \o <<"%">> >>
                            ELSE << filters[defs[i].key] >>))

\* C1: the total a listing returns is the number of stored rows that satisfy
\* the filters of the request (here for requests without sort parameters that
\* the store served without a failure).
C1_TotalCountsFilteredRows ==
    /\ (/\ Returned /\ response.op = "get_images" /\ ~response.fault
        /\ DOMAIN response.args \cap {"sort_by", "sort_order"} = {})
           => response.body.total =
                  Len(Satisfying("images", images, ImageFilters,
                                 RequestFilters(response.args, ImageParams)))
    /\ (Returned /\ response.op = "get_logs" /\ ~response.fault)
           => response.body.total =
                  Len(Satisfying("logs", logs, LogFilters,
                                 RequestFilters(response.args, LogParams)))

\* C2: total_pages of every returned listing is the ceiling of total / per_page
\* and is 0 exactly when total is 0.
C2_TotalPagesIsCeiling ==
    Returned =>
        /\ response.body.per_page >= 1 =>
               /\ response.body.total_pages * response.body.per_page >= response.body.total
               /\ (response.body.total_pages - 1) * response.body.per_page < response.body.total
        /\ response.body.total_pages = 0 <=> response.body.total = 0

\* The text of the fetch query get_images executes for a request.
ExecutedImagesQuery(args) ==
    QueryText("images",
              WhereClauses(ImageFilters, RequestFilters(args, ImageParams)).clauses,
              SortBy(RequestFilters(args, ImageParams)),
              SortOrder(RequestFilters(args, ImageParams)))

\* C3: the column and the direction that follow ORDER BY in the query
\* get_images executes are a column of images and ASC or DESC.
C3_SortIsAllowListed ==
    response.op = "get_images" =>
        \A i \in 1..Len(ExecutedImagesQuery(response.args)) :
            ExecutedImagesQuery(response.args)[i] = "ORDER BY" =>
                /\ ExecutedImagesQuery(response.args)[i + 1] \in Columns["images"]
                /\ ExecutedImagesQuery(response.args)[i + 2] \in
                       {"ASC", "DESC", "asc", "desc", "Asc", "Desc"}

\* C4: a returned listing for a page beyond total_pages holds no records.
C4_PageBeyondLastIsEmpty ==
    (Returned /\ response.body.page > response.body.total_pages)
        => response.body.rows = <<>>

\* C5: the page size a returned listing used and echoes is at least 1.
C5_PageSizeAtLeastOne == Returned => response.body.per_page >= 1

\* C6: the page a returned listing echoes is at least 1.
C6_PageAtLeastOne == Returned => response.body.page >= 1

\* C7: a listing whose store read failed is not answered with a listing.
C7_StoreFailureSurfaces == (Served /\ response.fault) => response.status # 200

\* A step that serves a listing request.
ServesListing == response = Idle /\ response'.op \in Listings

Declared(args, keys) == [k \in (DOMAIN args) \cap keys |-> args[k]]

SameAnswer(r) == response.status = r.status /\ response.body = r.body

\* The request in flight has a parameter that is neither page, per_page nor
\* one of params.
HasUndeclared(params) == ~(DOMAIN response.args \subseteq params \cup {"page", "per_page"})

\* C9: the answer to a request with parameters the endpoint does not declare
\* is the answer to the request without them.
C9_UndeclaredKeysIgnored ==
    /\ (response.op = "get_images" /\ HasUndeclared(ImageParams)) =>
           SameAnswer(app_get_images(db, Declared(response.args,
                                                  ImageParams \cup {"page", "per_page"}),
                                     response.fault))
    /\ (response.op = "get_logs" /\ HasUndeclared(LogParams)) =>
           SameAnswer(app_get_logs(db, Declared(response.args,
                                                LogParams \cup {"page", "per_page"}),
                                   response.fault))

\* C9 witness: a request with an undeclared parameter was answered with the
\* stored rows.
C9_Witness ==
    /\ response.op \in {"get_images", "get_logs"}
    /\ "tag" \in DOMAIN response.args
    /\ response.status = 200
    /\ response.body.rows # <<>>

\* The request without the filter parameters whose value is empty.
WithoutEmpty(args, keys) ==
    [k \in {x \in DOMAIN args : ~(x \in keys /\ args[x] = <<>>)} |-> args[k]]

\* The request in flight has a filter parameter with an empty value.
HasEmpty(keys) == \E k \in (DOMAIN response.args) \cap keys : response.args[k] = <<>>

\* Every parameter of the request is a filter with an empty value.
AllEmpty(args, keys) ==
    /\ DOMAIN args # {}
    /\ DOMAIN args \subseteq keys
    /\ \A k \in DOMAIN args : args[k] = <<>>

\* C10: a filter present with an empty value changes nothing in the answer,
\* and a request whose filters are all empty lists every row.
C10_EmptyValueNotApplied ==
    /\ (response.op = "get_images" /\ HasEmpty(ImageFilterKeys)) =>
           /\ SameAnswer(app_get_images(db, WithoutEmpty(response.args, ImageFilterKeys),
                                        response.fault))
           /\ (AllEmpty(response.args, ImageFilterKeys) /\ ~response.fault) =>
                  /\ response.status = 200
                  /\ response.body.total = Len(images)
                  /\ Len(response.body.rows) = Len(images)
    /\ (response.op = "get_logs" /\ HasEmpty(LogFilterKeys)) =>
           /\ SameAnswer(app_get_logs(db, WithoutEmpty(response.args, LogFilterKeys),
                                      response.fault))
           /\ (AllEmpty(response.args, LogFilterKeys) /\ ~response.fault) =>
                  /\ response.status = 200
                  /\ response.body.total = Len(logs)
                  /\ Len(response.body.rows) = Len(logs)

\* C10 witness: a request whose only filter is empty was answered with every
\* stored row.
C10_Witness ==
    /\ response.op \in {"get_images", "get_logs"}
    /\ AllEmpty(response.args, ImageFilterKeys \cup LogFilterKeys)
    /\ response.status = 200
    /\ response.body.rows # <<>>
    /\ response.body.total = Len(response.body.rows)

\* C11: with the default page, a listing holds exactly the stored rows that
\* satisfy every filter of the request that has a value (requests made of
\* filters only, served without a store failure).
C11_ReturnsExactlyMatchingRows ==
    /\ (/\ Returned /\ response.op = "get_images" /\ ~response.fault
        /\ DOMAIN response.args \subseteq ImageFilterKeys)
           => {response.body.rows[i] : i \in 1..Len(response.body.rows)} =
                  {r \in {images[i] : i \in 1..Len(images)} :
                       Satisfying("images", <<r>>, ImageFilters, response.args) # <<>>}
    /\ (/\ Returned /\ response.op = "get_logs" /\ ~response.fault
        /\ DOMAIN response.args \subseteq LogFilterKeys)
           => {response.body.rows[i] : i \in 1..Len(response.body.rows)} =
                  {r \in {logs[i] : i \in 1..Len(logs)} :
                       Satisfying("logs", <<r>>, LogFilters, response.args) # <<>>}

Reverse(s) == [i \in 1..Len(s) |-> s[Len(s) + 1 - i]]

\* The elements of seq at positions (page-1)*per_page .. page*per_page - 1,
\* counted from 0.
PageOf(seq, page, per_page) ==
    SubSeq(seq, (page - 1) * per_page + 1,
           IF page * per_page < Len(seq) THEN page * per_page ELSE Len(seq))

\* The rows a listing request selects, newest first: the filtered rows of
\* images or logs, the errors that are unresolved unless include_resolved.
FilteredNewestFirst ==
    CASE response.op = "get_images" ->
             Reverse(Satisfying("images", images, ImageFilters,
                                RequestFilters(response.args, ImageParams)))
      [] response.op = "get_logs" ->
             Reverse(Satisfying("logs", logs, LogFilters,
                                RequestFilters(response.args, LogParams)))
      [] response.op = "get_errors" ->
             Reverse(SelectSeq(errors, LAMBDA e :
                         IncludeResolved(response.args) \/ ~e.resolved))

\* C12: for page >= 1 and per_page >= 1 the records of a returned listing are
\* the page's positions of the filtered rows in the default order (requests
\* without sort parameters, served without a store failure).
C12_PageIsSliceOfFilteredRows ==
    (/\ Returned /\ ~response.fault
     /\ response.body.page >= 1 /\ response.body.per_page >= 1
     /\ DOMAIN response.args \cap {"sort_by", "sort_order"} = {})
        => response.body.rows =
               PageOf(FilteredNewestFirst, response.body.page, response.body.per_page)

\* What the call of thread t answers when it runs alone on the store as it
\* was when errors held its first k rows.
AloneOn(t, k) ==
    CASE calls[t].op = "get_images" ->
             app_get_images([images |-> images, logs |-> logs,
                             errors |-> SubSeq(errors, 1, k)], calls[t].args, FALSE)
      [] calls[t].op = "get_logs" ->
             app_get_logs([images |-> images, logs |-> logs,
                           errors |-> SubSeq(errors, 1, k)], calls[t].args, FALSE)
      [] calls[t].op = "get_errors" ->
             app_get_errors([images |-> images, logs |-> logs,
                             errors |-> SubSeq(errors, 1, k)], calls[t].args, FALSE)

\* C13: a listing call that ran among other listing calls answers what it
\* would answer alone on the store as it was at some moment of the call.
C13_ConcurrentListingAsAlone ==
    \A t \in Threads :
        calls[t].pc = "done" =>
            \E k \in calls[t].seen..Len(errors) :
                /\ calls[t].status = AloneOn(t, k).status
                /\ calls[t].body = AloneOn(t, k).body

\* The errors the request in flight asks for: the unresolved ones, or all
\* with include_resolved.
Asked(e) == IncludeResolved(response.args) \/ ~e.resolved

\* C14: the errors listing (served without a store failure) holds only rows
\* of errors that are unresolved, or any with include_resolved; total is the
\* number of those rows in the table; with the default page it holds them all.
C14_ResolvedFilterConsistent ==
    (Returned /\ response.op = "get_errors" /\ ~response.fault) =>
        /\ \A i \in 1..Len(response.body.rows) :
               /\ \E j \in 1..Len(errors) : errors[j] = response.body.rows[i]
               /\ Asked(response.body.rows[i])
        /\ response.body.total = Len(SelectSeq(errors, Asked))
        /\ DOMAIN response.args \cap {"page", "per_page"} = {} =>
               Len(response.body.rows) = response.body.total

\* C14 witness: with a resolved error in the table, the listing without
\* include_resolved left it out and did not count it.
C14_Witness ==
    /\ Returned /\ response.op = "get_errors" /\ ~response.fault
    /\ ~IncludeResolved(response.args)
    /\ \E i \in 1..Len(errors) : errors[i].resolved
    /\ response.body.total < Len(errors)
    /\ Len(response.body.rows) = response.body.total

\* A step that serves a resolve request.
ServesResolve == response = Idle /\ response'.op = "resolve_error"

\* C16: the resolve endpoint answers 200 when the call changes an unresolved
\* error to resolved and 404 otherwise.
C16_ResolveAnswers200OnlyOnChange ==
    [][ServesResolve =>
          IF \E i \in 1..Len(errors) :
                 /\ errors[i].id = response'.args.error_id
                 /\ ~errors[i].resolved
                 /\ errors'[i].resolved
          THEN response'.status = 200
          ELSE response'.status = 404]_vars

\* A step that serves an upload request.
ServesUpload == response = Idle /\ response'.op = "upload_image"

\* The upload request has no secret or a secret that is not the configured
\* key.
Unauthenticated(rq) == "secret" \notin DOMAIN rq.form \/ rq.form["secret"] # SECRET_KEY

\* C15: an upload whose secret is missing or wrong is answered 403 and adds
\* no file to the upload folder and no row to images.
C15_UnauthenticatedUploadRejected ==
    [][(ServesUpload /\ Unauthenticated(response'.args)) =>
          /\ response'.status = 403
          /\ files' = files
          /\ images' = images
          /\ sqlite_sequence' = sqlite_sequence]_vars

\* C15 witness: an upload that carried an image file and a wrong secret was
\* answered 403 and logged, with the folder and the table still empty.
C15_Witness ==
    /\ response.op = "upload_image"
    /\ "secret" \in DOMAIN response.args.form
    /\ Unauthenticated(response.args)
    /\ "image" \in DOMAIN response.args.files
    /\ response.status = 403
    /\ logs # <<>>
    /\ files = {}
    /\ images = <<>>

\* C17: no two rows of images have the same saved_filename.
C17_SavedFilenamesUnique ==
    \A i, j \in 1..Len(images) :
        i # j => images[i].saved_filename # images[j].saved_filename

\* C18: the files of the upload folder are the saved_filename of the rows of
\* images, no more and no less.
C18_RowsAndFilesInStep ==
    files = {images[i].saved_filename : i \in 1..Len(images)}

====
